---- MODULE Spec2Model ----
(***************************************************************************)
(* The credential exchange of the rolesanywhere credential helper:         *)
(* GenerateCredentials (ARN validation, identity loading, client set-up,   *)
(* CreateSession, response mapping) and the generated CreateSession /      *)
(* CreateSessionWithContext operations with their request lifecycle        *)
(* (validate, build, sign, send, unmarshal, retry).                        *)
(*                                                                         *)
(* Strings that the code only compares are TLA+ strings.  An ARN string is *)
(* the sequence of its ":"-separated sections, which is what arn.Parse     *)
(* looks at.  A Go pointer is a sequence of length 0 (nil) or 1.           *)
(***************************************************************************)
EXTENDS Integers, Sequences, FiniteSets, TLC

VARIABLES
    entry,      \* the operation the caller invoked
    given,      \* the caller's arguments as passed (never changed)
    opts,       \* *CredentialsOpts, as GenerateCredentials leaves it
    input,      \* the *CreateSessionInput handed to CreateSession
    pc,         \* position of the invocation
    calls,      \* number of calls of each collaborator / lifecycle step
    config,     \* aws.Config of the client GenerateCredentials builds
    retryCount, \* request.Request.RetryCount
    resp,       \* the HTTP response (or transport failure) of the last attempt
    output,     \* the *CreateSessionOutput of the request
    reqErr,     \* what req.Send() returned
    result,     \* what the invoked operation returned
    ctx,        \* the caller's cancellation: what reaches the request, and when
    handlers,   \* the Build and Sign handler lists of the client
    request,    \* the HTTP request as built, and the handlers run on it
    peer        \* a second GenerateCredentials given the same *CredentialsOpts

vars == <<entry, given, opts, input, pc, calls, config, retryCount, resp, output, reqErr,
          result, ctx, handlers, request, peer>>

-----------------------------------------------------------------------------
(* Bounds of the model *)

\* Longest credentialSet a response carries.
MaxCredentialSet == 2

-----------------------------------------------------------------------------
(* Go values *)

Nil == <<>>
Ptr(v) == <<v>>
Deref(p) == p[1]

NoError == [kind |-> "nil"]

\* CredentialProcessOutput{}
ZeroCredentialProcessOutput ==
    [Version |-> 0, AccessKeyId |-> "", SecretAccessKey |-> "",
     SessionToken |-> "", Expiration |-> ""]

\* CreateSessionInput{}
ZeroCreateSessionInput ==
    [Cert |-> Nil, DurationSeconds |-> Nil, InstanceProperties |-> Nil,
     ProfileArn |-> Nil, RoleArn |-> Nil, SessionName |-> Nil, TrustAnchorArn |-> Nil]

\* &CreateSessionOutput{}
ZeroCreateSessionOutput ==
    [CredentialSet |-> <<>>, EnrollmentArn |-> Nil, SubjectArn |-> Nil]

-----------------------------------------------------------------------------
(* arn.Parse, called by GenerateCredentials *)

ZeroARN == [Partition |-> "", Service |-> "", Region |-> "", AccountID |-> "", Resource |-> <<>>]

\* strings.HasPrefix(arn, "arn:")
HasArnPrefix(s) == Len(s) >= 2 /\ s[1] = "arn"

\* arn.Parse: prefix "arn:", then strings.SplitN(arn, ":", 6) must give 6 sections.
arnParse(s) ==
    IF ~HasArnPrefix(s)
    THEN [arn |-> ZeroARN, err |-> [kind |-> "arn", msg |-> "arn: invalid prefix"]]
    ELSE IF Len(s) < 6
    THEN [arn |-> ZeroARN, err |-> [kind |-> "arn", msg |-> "arn: not enough sections"]]
    ELSE [arn |-> [Partition |-> s[2], Service |-> s[3], Region |-> s[4],
                   AccountID |-> s[5], Resource |-> SubSeq(s, 6, Len(s))],
          err |-> NoError]

\* The ARN strings a caller passes.
ArnStrs ==
    { <<"arn", "aws", "rolesanywhere", "us-east-1", "111122223333", "trust-anchor/a">>,
      <<"arn", "aws", "rolesanywhere", "us-east-1", "111122223333", "profile/p", "v2">>,
      <<"arn", "aws", "rolesanywhere", "us-west-2", "111122223333", "profile/p">>,
      <<"urn", "aws", "rolesanywhere", "us-east-1", "111122223333", "profile/p">>,
      <<"arn", "aws", "rolesanywhere", "us-east-1">> }

\* The regions a caller passes in CredentialsOpts.Region ("" = not supplied).
OptRegions == {"", "eu-central-1"}

\* CredentialsOpts.CertificateBundleId ("" = no bundle).
BundleIds == {"", "bundle.pem"}

-----------------------------------------------------------------------------
(* CreateSessionInput.Validate *)

MinDurationSeconds == 900
MinSessionNameLen == 2

\* SessionName values are given by their length: len(*s.SessionName).
StrLen(str) == CASE str = "" -> 0 [] str = "a" -> 1 [] str = "ab" -> 2 [] OTHER -> 3

\* Mutant: the comparison is off by one.
DurationBelowMin_OffByOne(s) ==
    s.DurationSeconds # Nil /\ Deref(s.DurationSeconds) <= MinDurationSeconds

DurationBelowMin(s) ==
    s.DurationSeconds # Nil /\ Deref(s.DurationSeconds) < MinDurationSeconds

\* The invalidParams that Validate collects.
InvalidParams(s) ==
    (IF DurationBelowMin(s)
     THEN {[type |-> "ParamMinValueError", field |-> "DurationSeconds", min |-> MinDurationSeconds]}
     ELSE {})
    \cup (IF s.ProfileArn = Nil
          THEN {[type |-> "ParamRequiredError", field |-> "ProfileArn", min |-> 0]} ELSE {})
    \cup (IF s.RoleArn = Nil
          THEN {[type |-> "ParamRequiredError", field |-> "RoleArn", min |-> 0]} ELSE {})
    \cup (IF s.SessionName # Nil /\ StrLen(Deref(s.SessionName)) < MinSessionNameLen
          THEN {[type |-> "ParamMinLenError", field |-> "SessionName", min |-> MinSessionNameLen]}
          ELSE {})

Validate(s) ==
    IF Cardinality(InvalidParams(s)) > 0
    THEN [kind |-> "ErrInvalidParams", context |-> "CreateSessionInput", params |-> InvalidParams(s)]
    ELSE NoError

-----------------------------------------------------------------------------
(* Typed errors and the exceptionFromCode table *)

newErrorValidationException(v) == [kind |-> "*ValidationException", RespMetadata |-> v]
newErrorAccessDeniedException(v) == [kind |-> "*AccessDeniedException", RespMetadata |-> v]
newErrorResourceNotFoundException(v) == [kind |-> "*ResourceNotFoundException", RespMetadata |-> v]

TypedKinds == {"*ValidationException", "*AccessDeniedException", "*ResourceNotFoundException"}

ExceptionCodes == {"AccessDeniedException", "ResourceNotFoundException", "ValidationException"}

\* Mutant: two entries of the table are swapped.
exceptionFromCode_Swapped(code, v) ==
    CASE code = "AccessDeniedException" -> newErrorValidationException(v)
      [] code = "ResourceNotFoundException" -> newErrorResourceNotFoundException(v)
      [] code = "ValidationException" -> newErrorAccessDeniedException(v)

exceptionFromCode(code, v) ==
    CASE code = "AccessDeniedException" -> newErrorAccessDeniedException(v)
      [] code = "ResourceNotFoundException" -> newErrorResourceNotFoundException(v)
      [] code = "ValidationException" -> newErrorValidationException(v)

\* The generic awserr.RequestFailure the unmarshaller builds for a code that
\* is not in the table.
NewRequestFailure(code, status, requestID) ==
    [kind |-> "RequestFailure", code |-> code, statusCode |-> status, requestID |-> requestID]

\* Code(), StatusCode() and RequestID() of the errors above.
Code(e) ==
    CASE e.kind = "*AccessDeniedException" -> "AccessDeniedException"
      [] e.kind = "*ResourceNotFoundException" -> "ResourceNotFoundException"
      [] e.kind = "*ValidationException" -> "ValidationException"
      [] e.kind = "RequestFailure" -> e.code
      [] OTHER -> e.kind

StatusCode(e) ==
    CASE e.kind \in TypedKinds -> e.RespMetadata.StatusCode
      [] e.kind = "RequestFailure" -> e.statusCode
      [] OTHER -> 0

RequestID(e) ==
    CASE e.kind \in TypedKinds -> e.RespMetadata.RequestID
      [] e.kind = "RequestFailure" -> e.requestID
      [] OTHER -> ""

\* The UnmarshalError handler newClient installs:
\* restjson.NewUnmarshalTypedError(exceptionFromCode).
UnmarshalError(r) ==
    IF r.code \in ExceptionCodes
    THEN exceptionFromCode(r.code, [StatusCode |-> r.status, RequestID |-> r.requestID])
    ELSE NewRequestFailure(r.code, r.status, r.requestID)

-----------------------------------------------------------------------------
(* Responses of the service *)

NoResponse == [kind |-> "none", status |-> 0, code |-> "", requestID |-> "", out |-> ZeroCreateSessionOutput]

CredsA == [AccessKeyId |-> Ptr("AKIDEXAMPLE"), SecretAccessKey |-> Ptr("secret"),
           SessionToken |-> Ptr("tok"), Expiration |-> Ptr("2024-01-01T00:00:00Z")]
CredsB == [AccessKeyId |-> Ptr("AKIDOTHER"), SecretAccessKey |-> Ptr("secret2"),
           SessionToken |-> Ptr("tok2"), Expiration |-> Ptr("2025-01-01T00:00:00Z")]

CredentialsValues ==
    {CredsA, CredsB}
    \cup {[CredsA EXCEPT ![f] = Nil] :
            f \in {"AccessKeyId", "SecretAccessKey", "SessionToken", "Expiration"}}

\* *CredentialResponse: nil, or an entry whose Credentials is nil or set.
CredentialResponses ==
    {Nil}
    \cup {Ptr([Credentials |-> Nil, RoleArn |-> Ptr("role")])}
    \cup {Ptr([Credentials |-> Ptr(c), RoleArn |-> Ptr("role")]) : c \in CredentialsValues}

\* Entries after the first: nil, or a complete entry with other values.
LaterCredentialResponses ==
    {Nil, Ptr([Credentials |-> Ptr(CredsB), RoleArn |-> Ptr("role")])}

\* The credentialSet of a response: empty, or any first entry followed by
\* up to MaxCredentialSet - 1 later ones.
CredentialSets ==
    {<<>>}
    \cup {<<first>> \o later :
            first \in CredentialResponses,
            later \in UNION {[1..n -> LaterCredentialResponses] : n \in 0..(MaxCredentialSet - 1)}}

CreateSessionOutputs ==
    {[CredentialSet |-> cs, EnrollmentArn |-> e, SubjectArn |-> Nil] :
        cs \in CredentialSets, e \in {Nil, Ptr("enrollment")}}

RequestIds == {"rid-1", "rid-2"}

ErrorCodeStatus ==
    { <<"ValidationException", 400>>, <<"ResourceNotFoundException", 404>>,
      <<"AccessDeniedException", 403>>, <<"AccessDeniedException", 503>>,
      <<"ThrottlingException", 429>>, <<"ThrottlingException", 400>>,
      <<"InternalServerException", 500>>, <<"UnknownOperationException", 404>>,
      <<"ServiceUnavailableException", 503>> }

SuccessResponses ==
    {[kind |-> "http", status |-> 200, code |-> "", requestID |-> "rid-1", out |-> o] :
        o \in CreateSessionOutputs}

ErrorResponses ==
    {[kind |-> "http", status |-> cs[2], code |-> cs[1], requestID |-> rid,
      out |-> ZeroCreateSessionOutput] : cs \in ErrorCodeStatus, rid \in RequestIds}

\* No response at all: the transport failed, with an error the retryer takes
\* for temporary or not.
TransportFailures ==
    {[kind |-> "transport", status |-> 0, code |-> c, requestID |-> "",
      out |-> ZeroCreateSessionOutput] : c \in {"temporary", "permanent"}}

Responses == SuccessResponses \cup ErrorResponses \cup TransportFailures

IsSuccess(r) == r.kind = "http" /\ r.status >= 200 /\ r.status < 300

-----------------------------------------------------------------------------
(* The retryer of the client: client.New is given a Config without         *)
(* MaxRetries or Retryer, so requests run under the SDK's default retryer. *)

DefaultRetryerMaxNumRetries == 3

ThrottleCodes == {"ThrottlingException", "Throttling", "TooManyRequestsException"}

\* Mutant: every failed attempt is retried.
ShouldRetry_Always(r) == TRUE

\* DefaultRetryer.ShouldRetry, on the response of the failed attempt.
ShouldRetry(r) ==
    \/ r.kind = "transport" /\ r.code = "temporary"
    \/ r.kind = "http" /\ r.status >= 500 /\ r.status # 501
    \/ r.kind = "http" /\ (r.status = 429 \/ r.code \in ThrottleCodes)

RequestCanceled == [kind |-> "RequestCanceled"]
RequestError == [kind |-> "RequestError"]

\* Request.Error after one attempt that ended with r.
AttemptError(r) ==
    CASE r.kind = "canceled" -> RequestCanceled
      [] r.kind = "transport" -> RequestError
      [] IsSuccess(r) -> NoError
      [] OTHER -> UnmarshalError(r)

-----------------------------------------------------------------------------
(* The caller's arguments *)

GC == "GenerateCredentials"
CS == "CreateSession"
CSC == "CreateSessionWithContext"

ZeroCredentialsOpts ==
    [TrustAnchorArnStr |-> <<>>, ProfileArnStr |-> <<>>, RoleArn |-> "",
     Region |-> "", CertificateBundleId |-> "", SessionDuration |-> 0]

\* CredentialsOpts.SessionDuration: not given, or two hours.
SessionDurations == {0, 7200}

CredentialsOptsValues ==
    {[TrustAnchorArnStr |-> ta, ProfileArnStr |-> pr, RoleArn |-> "role-arn",
      Region |-> rg, CertificateBundleId |-> b, SessionDuration |-> sd] :
        ta \in ArnStrs, pr \in ArnStrs, rg \in OptRegions, b \in BundleIds,
        sd \in SessionDurations}

CreateSessionInputValues ==
    {[Cert |-> Nil, DurationSeconds |-> d, InstanceProperties |-> ip,
      ProfileArn |-> pa, RoleArn |-> ra, SessionName |-> sn, TrustAnchorArn |-> Nil] :
        d \in {Nil, Ptr(899), Ptr(900), Ptr(3600)},
        ip \in {Nil, Ptr([host |-> "h1"])},
        pa \in {Nil, Ptr("profile-arn")},
        ra \in {Nil, Ptr("role-arn")},
        sn \in {Nil, Ptr("a"), Ptr("ab")}}

-----------------------------------------------------------------------------
(* Handler lists of a client *)

PushBackNamed(l, name) == Append(l, name)

RemoveByName(l, name) == SelectSeq(l, LAMBDA h : h # name)

\* Mutant: the list keeps its handlers.
Clear_Skipped(l) == l

Clear(l) == SelectSeq(l, LAMBDA h : FALSE)

\* The handlers a client takes over from the session (the SDK's defaults).
SessionHandlers ==
    [Build |-> <<"core.SDKVersionUserAgentHandler", "core.AddHostExecEnvUserAgentHander">>,
     Sign |-> <<"core.BuildContentLengthHandler">>]

\* newClient: the session's handlers, then the service's own.
newClient(h) ==
    [Build |-> PushBackNamed(h.Build, "awssdk.restjson.Build"),
     Sign |-> PushBackNamed(h.Sign, "v4.SignRequestHandler")]

\* The client of GenerateCredentials after its four changes to the lists.
CredHelperHandlers ==
    [Build |-> PushBackNamed(
                   RemoveByName(newClient(SessionHandlers).Build,
                                "core.SDKVersionUserAgentHandler"),
                   "v4x509.CredHelperUserAgentHandler"),
     Sign |-> PushBackNamed(Clear(newClient(SessionHandlers).Sign),
                            "v4x509.SignRequestHandler")]

-----------------------------------------------------------------------------
(* The HTTP request built from a CreateSessionInput *)

\* Mutant: durationSeconds is sent in the query string.
FieldTags_DurationInQuery ==
    {[field |-> "Cert", location |-> "header", locationName |-> "x-amz-x509"],
     [field |-> "DurationSeconds", location |-> "querystring", locationName |-> "durationSeconds"],
     [field |-> "InstanceProperties", location |-> "", locationName |-> "instanceProperties"],
     [field |-> "ProfileArn", location |-> "querystring", locationName |-> "profileArn"],
     [field |-> "RoleArn", location |-> "querystring", locationName |-> "roleArn"],
     [field |-> "SessionName", location |-> "", locationName |-> "sessionName"],
     [field |-> "TrustAnchorArn", location |-> "querystring", locationName |-> "trustAnchorArn"]}

\* The struct tags of CreateSessionInput; a field without a location tag
\* belongs to the JSON body.
FieldTags ==
    {[field |-> "Cert", location |-> "header", locationName |-> "x-amz-x509"],
     [field |-> "DurationSeconds", location |-> "", locationName |-> "durationSeconds"],
     [field |-> "InstanceProperties", location |-> "", locationName |-> "instanceProperties"],
     [field |-> "ProfileArn", location |-> "querystring", locationName |-> "profileArn"],
     [field |-> "RoleArn", location |-> "querystring", locationName |-> "roleArn"],
     [field |-> "SessionName", location |-> "", locationName |-> "sessionName"],
     [field |-> "TrustAnchorArn", location |-> "querystring", locationName |-> "trustAnchorArn"]}

\* The non-nil fields of s that go to location loc.
Located(s, loc) == {t \in FieldTags : t.location = loc /\ s[t.field] # Nil}

TagNamed(name) == CHOOSE t \in FieldTags : t.locationName = name

\* The fields of s at location loc, by their name on the wire.
Serialized(s, loc) ==
    [name \in {t.locationName : t \in Located(s, loc)} |-> Deref(s[TagNamed(name).field])]

\* restjson.Build: headers and query string, then the JSON of the remaining
\* fields as the body; the body is not set when that JSON is "{}".
restjsonBuild(req, s) ==
    [req EXCEPT !.query = Serialized(s, "querystring"),
                !.header = Serialized(s, "header"),
                !.body = Serialized(s, "")]

\* The Build handlers, run in the order of the list.
RunBuild(req, s) ==
    LET built == IF \E i \in DOMAIN handlers.Build : handlers.Build[i] = "awssdk.restjson.Build"
                 THEN restjsonBuild(req, s)
                 ELSE req
    IN  [built EXCEPT !.ran = @ \o handlers.Build]

\* The Sign handlers, run in the order of the list.
RunSign(req) == [req EXCEPT !.ran = @ \o handlers.Sign]

\* No client yet.
NoHandlers == [Build |-> <<>>, Sign |-> <<>>]

\* No request yet.
NoRequest ==
    [method |-> "", path |-> "", query |-> <<>>, header |-> <<>>, body |-> <<>>, ran |-> <<>>]

\* No second invocation.  wrote: the invocations that have written
\* opts.Region; crossReads: those that read it after the other had written it.
NoPeer == [pc |-> "off", region |-> "", wrote |-> {}, crossReads |-> {}]

ZeroCalls ==
    [ReadPrivateKeyData |-> 0, ReadCertificateData |-> 0, ReadCertificateBundleData |-> 0,
     CreateSession |-> 0, Validate |-> 0, Sign |-> 0, Send |-> 0]

Init ==
    /\ entry \in {GC, CS, CSC}
    /\ given \in IF entry = GC
                 THEN {[opts |-> o, input |-> Nil] : o \in CredentialsOptsValues}
                 ELSE {[opts |-> ZeroCredentialsOpts, input |-> i] :
                          i \in {Nil} \cup {Ptr(v) : v \in CreateSessionInputValues}}
    /\ opts = given.opts
    /\ input = given.input
    /\ pc = IF entry = GC THEN "gc_arns" ELSE "request"
    /\ calls = ZeroCalls
    /\ config = [Region |-> ""]
    /\ retryCount = 0
    /\ resp = NoResponse
    /\ output = ZeroCreateSessionOutput
    /\ reqErr = NoError
    /\ result = [out |-> ZeroCredentialProcessOutput, err |-> NoError]
    /\ ctx = [attached |-> FALSE, cancelled |-> FALSE, requested |-> "no"]
    /\ handlers = IF entry = GC THEN NoHandlers ELSE newClient(SessionHandlers)
    /\ request = NoRequest
    /\ peer = NoPeer

Called(name) == [calls EXCEPT ![name] = @ + 1]

-----------------------------------------------------------------------------
(* GenerateCredentials *)

\* return out, err
Return(out, err) ==
    /\ result' = [out |-> out, err |-> err]
    /\ pc' = "done"

\* Mutant: the region check is left out.
RegionsDiffer_Skipped(a, b) == FALSE

RegionsDiffer(a, b) == a.Region # b.Region

\* Mutant: the trust anchor's region overrides the caller's.
DerivedRegion_Always(region, trustAnchorArn, profileArn) == trustAnchorArn.Region

\* opts.Region after "if opts.Region == "" { opts.Region = trustAnchorArn.Region }"
DerivedRegion(region, trustAnchorArn, profileArn) ==
    IF region = "" THEN trustAnchorArn.Region ELSE region

\* A string read while another goroutine writes it, word by word: neither
\* the old nor the new value.
TornString == "<inconsistent>"

\* What a read of opts.Region by invocation self may give.  Nothing orders
\* the accesses of two invocations given the same pointer, so once the other
\* one has written the field, a read observes the value as passed, the value
\* written, or a mix of the two.
RegionReads(self) ==
    IF peer.wrote \ {self} = {}
    THEN {opts.Region}
    ELSE {given.opts.Region, opts.Region, TornString}

\* The write of "if opts.Region == "" { opts.Region = ... }" after reading r:
\* the field is assigned only when the derived value is not the one read.
RegionAfter(r, trustAnchorArn, profileArn) ==
    IF DerivedRegion(r, trustAnchorArn, profileArn) = r
    THEN opts.Region
    ELSE DerivedRegion(r, trustAnchorArn, profileArn)

\* The record of who wrote and who read what another wrote, after self has
\* read opts.Region and, if writes, written it.
Accessed(self, writes) ==
    [peer EXCEPT
        !.wrote = IF writes THEN @ \cup {self} ELSE @,
        !.crossReads = IF peer.wrote \ {self} # {} THEN @ \cup {self} ELSE @]

GC_ValidateArns ==
    /\ entry = GC /\ pc = "gc_arns"
    /\ LET trustAnchor == arnParse(opts.TrustAnchorArnStr)
           profile == arnParse(opts.ProfileArnStr)
       IN  IF trustAnchor.err # NoError
           THEN Return(ZeroCredentialProcessOutput, trustAnchor.err) /\ UNCHANGED <<opts, peer>>
           ELSE IF profile.err # NoError
           THEN Return(ZeroCredentialProcessOutput, profile.err) /\ UNCHANGED <<opts, peer>>
           ELSE IF RegionsDiffer(trustAnchor.arn, profile.arn)
           \* "return CredentialProcessOutput{}, err": err is the profile parse's
           THEN Return(ZeroCredentialProcessOutput, profile.err) /\ UNCHANGED <<opts, peer>>
           ELSE \E r \in RegionReads("main") :
                /\ opts' = [opts EXCEPT
                              !.Region = RegionAfter(r, trustAnchor.arn, profile.arn)]
                /\ peer' = Accessed("main",
                                    DerivedRegion(r, trustAnchor.arn, profile.arn) # r)
                /\ pc' = "gc_key"
                /\ UNCHANGED result
    /\ UNCHANGED <<handlers, request, entry, given, input, calls, config, retryCount, resp, output, reqErr, ctx>>

GC_ReadPrivateKeyData ==
    /\ entry = GC /\ pc = "gc_key"
    /\ calls' = Called("ReadPrivateKeyData")
    /\ \E ok \in BOOLEAN :
         IF ok THEN pc' = "gc_cert" /\ UNCHANGED result
         ELSE Return(ZeroCredentialProcessOutput, [kind |-> "KeyLoadError"])
    /\ UNCHANGED <<peer, handlers, request, entry, given, opts, input, config, retryCount, resp, output, reqErr, ctx>>

\* ReadCertificateData, base64 decoding and x509.ParseCertificate
GC_ReadCertificateData ==
    /\ entry = GC /\ pc = "gc_cert"
    /\ calls' = Called("ReadCertificateData")
    /\ \E outcome \in {"ok", "CertificateLoadError", "CorruptInputError", "x509ParseError"} :
         IF outcome = "ok"
         THEN /\ pc' = IF opts.CertificateBundleId # "" THEN "gc_bundle" ELSE "gc_client"
              /\ UNCHANGED result
         ELSE Return(ZeroCredentialProcessOutput, [kind |-> outcome])
    /\ UNCHANGED <<peer, handlers, request, entry, given, opts, input, config, retryCount, resp, output, reqErr, ctx>>

GC_ReadCertificateBundleData ==
    /\ entry = GC /\ pc = "gc_bundle"
    /\ calls' = Called("ReadCertificateBundleData")
    /\ \E ok \in BOOLEAN :
         IF ok THEN pc' = "gc_client" /\ UNCHANGED result
         ELSE Return(ZeroCredentialProcessOutput, [kind |-> "CertificateBundleLoadError"])
    /\ UNCHANGED <<peer, handlers, request, entry, given, opts, input, config, retryCount, resp, output, reqErr, ctx>>

DefaultDurationSeconds == 3600

\* Session, transport, config, client and the CreateSessionInput.
\* session.Must panics when the session cannot be created.
GC_NewClient ==
    /\ entry = GC /\ pc = "gc_client"
    /\ \E sessionOk \in BOOLEAN :
         IF ~sessionOk
         THEN pc' = "panic" /\ UNCHANGED <<config, peer, input, handlers>>
         ELSE /\ \E r \in RegionReads("main") :
                   /\ config' = [Region |-> r]
                   /\ peer' = Accessed("main", FALSE)
              /\ input' = Ptr([Cert |-> Ptr("certificateData"),
                               ProfileArn |-> Ptr(opts.ProfileArnStr),
                               TrustAnchorArn |-> Ptr(opts.TrustAnchorArnStr),
                               DurationSeconds |-> Ptr(DefaultDurationSeconds),
                               InstanceProperties |-> Nil,
                               RoleArn |-> Ptr(opts.RoleArn),
                               SessionName |-> Nil])
              /\ handlers' = CredHelperHandlers
              /\ pc' = "request"
    /\ UNCHANGED <<request, entry, given, opts, calls, retryCount, resp, output, reqErr, result, ctx>>

-----------------------------------------------------------------------------
(* CreateSession, CreateSessionWithContext and the request they send *)

opCreateSession == [HTTPMethod |-> "POST", HTTPPath |-> "/sessions"]

\* c.newRequest(op, input, output)
newRequest(op) == [NoRequest EXCEPT !.method = op.HTTPMethod, !.path = op.HTTPPath]

\* CreateSessionRequest: "if input == nil { input = &CreateSessionInput{} }"
CreateSessionRequest(in) == IF in = Nil THEN Ptr(ZeroCreateSessionInput) ELSE in

\* req, out := c.CreateSessionRequest(input); return out, req.Send()
CreateSession ==
    /\ entry \in {GC, CS} /\ pc = "request"
    /\ calls' = Called("CreateSession")
    /\ input' = CreateSessionRequest(input)
    /\ output' = ZeroCreateSessionOutput
    /\ retryCount' = 0
    /\ request' = newRequest(opCreateSession)
    /\ pc' = "build"
    /\ UNCHANGED <<peer, handlers, entry, given, opts, config, resp, reqErr, result, ctx>>

\* Mutant: the context is not handed to the request.
SetContext_Dropped(c) == c

\* req.SetContext(ctx): the caller's context becomes the request's.
SetContext(c) == [c EXCEPT !.attached = TRUE]

\* The request's context is done: it is the caller's, and the caller has
\* cancelled it or its deadline has passed.  Without SetContext the request
\* runs under the background context, which is never done.
CtxDone == ctx.attached /\ ctx.cancelled

\* The same, with req.SetContext(ctx) before the send.
CreateSessionWithContext ==
    /\ entry = CSC /\ pc = "request"
    /\ calls' = Called("CreateSession")
    /\ input' = CreateSessionRequest(input)
    /\ output' = ZeroCreateSessionOutput
    /\ retryCount' = 0
    /\ pc' = "build"
    /\ ctx' = SetContext(ctx)
    /\ request' = newRequest(opCreateSession)
    /\ UNCHANGED <<peer, handlers, entry, given, opts, config, resp, reqErr, result>>

\* req.Send() has returned err: GenerateCredentials goes on with it, the
\* other two operations return (out, err) to their caller.
SendReturns(out, err) ==
    /\ reqErr' = err
    /\ output' = out
    /\ IF entry = GC
       THEN pc' = "gc_map" /\ UNCHANGED result
       ELSE Return(out, err)

\* First step of Send: the parameters are validated, then the request is built.
Req_Build ==
    /\ pc = "build"
    /\ calls' = Called("Validate")
    /\ IF Validate(Deref(input)) # NoError
       THEN SendReturns(output, Validate(Deref(input))) /\ UNCHANGED request
       ELSE /\ request' = RunBuild(request, Deref(input))
            /\ pc' = "sign"
            /\ UNCHANGED <<reqErr, output, result>>
    /\ UNCHANGED <<peer, handlers, entry, given, opts, input, config, retryCount, resp, ctx>>

\* The Sign handlers run before every attempt; the signer may fail.
Req_Sign ==
    /\ pc = "sign"
    /\ calls' = Called("Sign")
    /\ \E ok \in BOOLEAN :
         IF ok THEN pc' = "send" /\ UNCHANGED <<reqErr, output, result>>
         ELSE SendReturns(output, [kind |-> "SigningFailure"])
    /\ request' = RunSign(request)
    /\ UNCHANGED <<peer, handlers, entry, given, opts, input, config, retryCount, resp, ctx>>

\* The signed request goes out.
Req_Send ==
    /\ pc = "send"
    /\ calls' = Called("Send")
    /\ pc' = "network"
    /\ UNCHANGED <<peer, handlers, request, entry, given, opts, input, config, retryCount, resp, output, reqErr, result, ctx>>

\* The service answers, or the transport fails.
Net_Respond ==
    /\ pc = "network" /\ ~CtxDone
    /\ \E r \in Responses : resp' = r
    /\ pc' = "complete"
    /\ UNCHANGED <<peer, handlers, request, entry, given, opts, input, calls, config, retryCount, output, reqErr, result, ctx>>

\* The request's context is done while the request is in flight: the HTTP
\* client gives up the attempt.
Net_Cancelled ==
    /\ pc = "network" /\ CtxDone
    /\ resp' = [NoResponse EXCEPT !.kind = "canceled"]
    /\ pc' = "complete"
    /\ UNCHANGED <<peer, handlers, request, entry, given, opts, input, calls, config, retryCount, output, reqErr, result, ctx>>

\* Unmarshal or UnmarshalError, then the Retry handlers: go round again or
\* return from Send.
Req_Complete ==
    /\ pc = "complete"
    /\ LET err == AttemptError(resp) IN
         IF err = NoError
         THEN SendReturns(resp.out, NoError) /\ UNCHANGED retryCount
         ELSE IF ShouldRetry(resp) /\ retryCount < DefaultRetryerMaxNumRetries
         THEN IF CtxDone
              \* the retry delay is a sleep on the request's context
              THEN SendReturns(output, RequestCanceled) /\ UNCHANGED retryCount
              ELSE /\ retryCount' = retryCount + 1
                   /\ pc' = "sign"
                   /\ UNCHANGED <<reqErr, output, result>>
         ELSE SendReturns(output, err) /\ UNCHANGED retryCount
    /\ UNCHANGED <<peer, handlers, request, entry, given, opts, input, calls, config, resp, ctx>>

-----------------------------------------------------------------------------
(* GenerateCredentials, after CreateSession *)

NoCredentialsError ==
    [kind |-> "errorString",
     msg |-> "unable to obtain temporary security credentials from CreateSession"]

\* Mutant: the emptiness check is left out.
IsEmptyCredentialSet_Skipped(cs) == FALSE

\* len(output.CredentialSet) == 0
IsEmptyCredentialSet(cs) == Len(cs) = 0

\* output.CredentialSet[0].Credentials and the four dereferences panic on
\* an index out of range or a nil pointer.
Panics(cs) ==
    \/ Len(cs) = 0
    \/ cs[1] = Nil
    \/ Deref(cs[1]).Credentials = Nil
    \/ \E f \in {"AccessKeyId", "SecretAccessKey", "SessionToken", "Expiration"} :
         Deref(Deref(cs[1]).Credentials)[f] = Nil

FirstEntry(cs) == cs[1]

ProjectedVersion == 1

\* Mutant: the session token is filled from the secret access key.
Project_WrongField(cs) ==
    LET credentials == Deref(Deref(FirstEntry(cs)).Credentials) IN
    [Version |-> ProjectedVersion,
     AccessKeyId |-> Deref(credentials.AccessKeyId),
     SecretAccessKey |-> Deref(credentials.SecretAccessKey),
     SessionToken |-> Deref(credentials.SecretAccessKey),
     Expiration |-> Deref(credentials.Expiration)]

\* The CredentialProcessOutput literal.
Project(cs) ==
    LET credentials == Deref(Deref(FirstEntry(cs)).Credentials) IN
    [Version |-> ProjectedVersion,
     AccessKeyId |-> Deref(credentials.AccessKeyId),
     SecretAccessKey |-> Deref(credentials.SecretAccessKey),
     SessionToken |-> Deref(credentials.SessionToken),
     Expiration |-> Deref(credentials.Expiration)]

GC_MapResponse ==
    /\ entry = GC /\ pc = "gc_map"
    /\ IF reqErr # NoError
       THEN Return(ZeroCredentialProcessOutput, reqErr)
       ELSE IF IsEmptyCredentialSet(output.CredentialSet)
       THEN Return(ZeroCredentialProcessOutput, NoCredentialsError)
       ELSE IF Panics(output.CredentialSet)
       THEN pc' = "panic" /\ UNCHANGED result
       ELSE Return(Project(output.CredentialSet), NoError)
    /\ UNCHANGED <<peer, handlers, request, entry, given, opts, input, calls, config, retryCount, resp, output, reqErr, ctx>>

-----------------------------------------------------------------------------
(* The caller *)

\* The caller gives up: it cancels, or its deadline passes.  ctx.requested
\* records whether a request was in flight at that moment.
Caller_Cancel ==
    /\ pc \notin {"done", "panic"}
    /\ ctx.requested = "no"
    /\ ctx' = [ctx EXCEPT !.cancelled = TRUE,
                          !.requested = IF pc = "network" THEN "network" ELSE "other"]
    /\ UNCHANGED <<peer, handlers, request, entry, given, opts, input, pc, calls, config, retryCount, resp, output, reqErr, result>>

-----------------------------------------------------------------------------
(* A second invocation of GenerateCredentials, given the same pointer while *)
(* the first is running.  Of its run, the steps that touch the shared       *)
(* CredentialsOpts are followed: the ARN checks with the read and write of  *)
(* opts.Region, the loading of the identity, and the read of opts.Region    *)
(* for the client's Config.                                                 *)

Peer_Start ==
    /\ entry = GC /\ pc \notin {"done", "panic"}
    /\ peer.pc = "off"
    /\ peer' = [peer EXCEPT !.pc = "gc_arns"]
    /\ UNCHANGED <<handlers, request, entry, given, opts, input, pc, calls, config, retryCount, resp, output, reqErr, result, ctx>>

Peer_ValidateArns ==
    /\ peer.pc = "gc_arns"
    /\ LET trustAnchor == arnParse(opts.TrustAnchorArnStr)
           profile == arnParse(opts.ProfileArnStr)
       IN  IF \/ trustAnchor.err # NoError
              \/ profile.err # NoError
              \/ RegionsDiffer(trustAnchor.arn, profile.arn)
           THEN peer' = [peer EXCEPT !.pc = "done"] /\ UNCHANGED opts
           ELSE \E r \in RegionReads("peer") :
                /\ opts' = [opts EXCEPT
                              !.Region = RegionAfter(r, trustAnchor.arn, profile.arn)]
                /\ peer' = [Accessed("peer",
                                     DerivedRegion(r, trustAnchor.arn, profile.arn) # r)
                              EXCEPT !.pc = "gc_load"]
    /\ UNCHANGED <<handlers, request, entry, given, input, pc, calls, config, retryCount, resp, output, reqErr, result, ctx>>

\* ReadPrivateKeyData, ReadCertificateData, ReadCertificateBundleData
Peer_Load ==
    /\ peer.pc = "gc_load"
    /\ \E ok \in BOOLEAN :
         peer' = [peer EXCEPT !.pc = IF ok THEN "gc_client" ELSE "done"]
    /\ UNCHANGED <<handlers, request, entry, given, opts, input, pc, calls, config, retryCount, resp, output, reqErr, result, ctx>>

\* aws.NewConfig().WithRegion(opts.Region)
Peer_NewClient ==
    /\ peer.pc = "gc_client"
    /\ \E r \in RegionReads("peer") :
         peer' = [Accessed("peer", FALSE) EXCEPT !.pc = "client", !.region = r]
    /\ UNCHANGED <<handlers, request, entry, given, opts, input, pc, calls, config, retryCount, resp, output, reqErr, result, ctx>>

Peer ==
    \/ Peer_Start
    \/ Peer_ValidateArns
    \/ Peer_Load
    \/ Peer_NewClient

-----------------------------------------------------------------------------

Program ==
    \/ GC_ValidateArns
    \/ GC_ReadPrivateKeyData
    \/ GC_ReadCertificateData
    \/ GC_ReadCertificateBundleData
    \/ GC_NewClient
    \/ CreateSession
    \/ CreateSessionWithContext
    \/ Req_Build
    \/ Req_Sign
    \/ Req_Send
    \/ Net_Cancelled
    \/ Req_Complete
    \/ GC_MapResponse

Next ==
    \/ Program
    \/ Net_Respond
    \/ Caller_Cancel

Spec == Init /\ [][Next]_vars

\* Two invocations given the same *CredentialsOpts.
ConcNext ==
    \/ Next
    \/ Peer

ConcSpec == Init /\ [][ConcNext]_vars

\* The program's own steps are always taken in the end; the network owes no
\* answer and the caller no cancellation.
FairSpec == Spec /\ WF_vars(Program)

-----------------------------------------------------------------------------
(* Properties *)

GivenTrustAnchor == arnParse(given.opts.TrustAnchorArnStr)
GivenProfile == arnParse(given.opts.ProfileArnStr)

BothArnsParse == GivenTrustAnchor.err = NoError /\ GivenProfile.err = NoError

RegionMismatch ==
    BothArnsParse /\ GivenTrustAnchor.arn.Region # GivenProfile.arn.Region

\* GenerateCredentials has ended, by a return or by a panic.
GC_Ended == entry = GC /\ pc \in {"done", "panic"}

\* CreateSession came back to GenerateCredentials with a 2xx response.
GC_GotSuccess == GC_Ended /\ calls.Send > 0 /\ reqErr = NoError /\ IsSuccess(resp)

FirstIsComplete(cs) ==
    /\ Len(cs) > 0
    /\ cs[1] # Nil
    /\ cs[1][1].Credentials # Nil
    /\ \A f \in {"AccessKeyId", "SecretAccessKey", "SessionToken", "Expiration"} :
         cs[1][1].Credentials[1][f] # Nil

\* The region an invocation uses when it runs alone.
RegionAlone ==
    IF given.opts.Region = "" THEN GivenTrustAnchor.arn.Region ELSE given.opts.Region

\* C1: when both ARNs parse and their regions differ, GenerateCredentials
\* returns a non-nil error that is a region-mismatch failure, not a parse
\* error and not a nil error with an empty CredentialProcessOutput.
C1_RegionMismatchIsAnError ==
    (entry = GC /\ pc = "done" /\ RegionMismatch)
        => (result.err # NoError /\ result.err.kind # "arn")

\* C2: when an ARN does not parse or the two regions differ, no collaborator
\* is called and nothing is sent: ReadPrivateKeyData, ReadCertificateData,
\* ReadCertificateBundleData and CreateSession are never invoked.
C2_NoCallsOnArnFailure ==
    (entry = GC /\ (~BothArnsParse \/ RegionMismatch))
        => /\ calls.ReadPrivateKeyData = 0
           /\ calls.ReadCertificateData = 0
           /\ calls.ReadCertificateBundleData = 0
           /\ calls.CreateSession = 0
           /\ calls.Send = 0

C2_Witness ==
    entry = GC /\ pc = "done" /\ RegionMismatch /\ calls = ZeroCalls

\* C3: for parseable ARNs with equal regions, the region of the exchange is
\* the trust-anchor ARN's region when the caller gave none, and the caller's
\* region, unchanged, when the caller gave one.
C3_RegionOfExchange ==
    (entry = GC /\ calls.CreateSession > 0)
        => /\ BothArnsParse /\ ~RegionMismatch
           /\ config.Region = IF given.opts.Region = ""
                              THEN GivenTrustAnchor.arn.Region
                              ELSE given.opts.Region
           /\ opts.Region = config.Region

C3_Witness ==
    /\ entry = GC /\ calls.Send > 0
    /\ given.opts.Region = ""
    /\ config.Region = "us-east-1"

\* C4: a 2xx response with an empty credentialSet makes GenerateCredentials
\* return the no-credentials error with the zero CredentialProcessOutput.
C4_EmptySetIsAnError ==
    (GC_GotSuccess /\ resp.out.CredentialSet = <<>>)
        => /\ pc = "done"
           /\ result.err = NoCredentialsError
           /\ result.err # NoError
           /\ result.out = ZeroCredentialProcessOutput

C4_Witness ==
    GC_GotSuccess /\ resp.out.CredentialSet = <<>> /\ pc = "done"

\* C5: a 2xx response whose first credentialSet entry is complete makes
\* GenerateCredentials return a nil error and version 1 with the four values
\* of that first entry, whatever else the response holds.
C5_ProjectsFirstEntry ==
    (GC_GotSuccess /\ FirstIsComplete(resp.out.CredentialSet))
        => /\ pc = "done"
           /\ result.err = NoError
           /\ result.out =
                [Version |-> 1,
                 AccessKeyId |-> resp.out.CredentialSet[1][1].Credentials[1].AccessKeyId[1],
                 SecretAccessKey |-> resp.out.CredentialSet[1][1].Credentials[1].SecretAccessKey[1],
                 SessionToken |-> resp.out.CredentialSet[1][1].Credentials[1].SessionToken[1],
                 Expiration |-> resp.out.CredentialSet[1][1].Credentials[1].Expiration[1]]

C5_Witness ==
    /\ GC_GotSuccess /\ pc = "done"
    /\ Len(resp.out.CredentialSet) = 2
    /\ resp.out.CredentialSet[1] = Ptr([Credentials |-> Ptr(CredsA), RoleArn |-> Ptr("role")])
    /\ resp.out.CredentialSet[2] = Ptr([Credentials |-> Ptr(CredsB), RoleArn |-> Ptr("role")])
    /\ resp.out.EnrollmentArn # Nil
    /\ result.out.AccessKeyId = "AKIDEXAMPLE"

\* C6: a 2xx response whose first credentialSet entry is incomplete makes
\* GenerateCredentials return an error and no credentials; it does not crash.
C6_IncompleteEntryIsAnError ==
    (GC_GotSuccess /\ Len(resp.out.CredentialSet) > 0
                   /\ ~FirstIsComplete(resp.out.CredentialSet))
        => /\ pc = "done"
           /\ result.err # NoError
           /\ result.out = ZeroCredentialProcessOutput


C6_Reached ==
    /\ GC_GotSuccess /\ pc = "panic"
    /\ resp.out.CredentialSet = <<Ptr([Credentials |-> Nil, RoleArn |-> Ptr("role")])>>

\* The error of req.Send() stems from the response of the last attempt.
ErrorFromResponse ==
    /\ pc \in {"gc_map", "done", "panic"}
    /\ calls.Send > 0
    /\ resp.kind = "http" /\ ~IsSuccess(resp)
    /\ reqErr.kind \notin {"SigningFailure", "RequestCanceled"}

\* C7: the error returned for a non-2xx response is selected by the
\* response's error code: ValidationException, ResourceNotFoundException and
\* AccessDeniedException give the typed error of that name, whose Code() is
\* the name and whose StatusCode() and RequestID() are the response's; any
\* other code gives a generic failure with the response's status and
\* request id.
C7_ErrorSelectedByCode ==
    ErrorFromResponse
        => /\ StatusCode(reqErr) = resp.status
           /\ RequestID(reqErr) = resp.requestID
           /\ resp.code = "ValidationException" => reqErr.kind = "*ValidationException"
           /\ resp.code = "ResourceNotFoundException" => reqErr.kind = "*ResourceNotFoundException"
           /\ resp.code = "AccessDeniedException" => reqErr.kind = "*AccessDeniedException"
           /\ resp.code \in {"ValidationException", "ResourceNotFoundException",
                             "AccessDeniedException"} => Code(reqErr) = resp.code
           /\ resp.code \notin {"ValidationException", "ResourceNotFoundException",
                                "AccessDeniedException"} => reqErr.kind = "RequestFailure"
           /\ pc = "done" => result.err = reqErr

C7_Witness ==
    /\ ErrorFromResponse /\ pc = "done"
    /\ resp.code = "AccessDeniedException" /\ resp.status = 503 /\ resp.requestID = "rid-2"
    /\ result.err.kind = "*AccessDeniedException"

\* The input of a request made through CreateSession or
\* CreateSessionWithContext has ProfileArn and RoleArn and no SessionName.
C8_Input ==
    /\ entry \in {CS, CSC}
    /\ given.input # Nil
    /\ given.input[1].ProfileArn # Nil
    /\ given.input[1].RoleArn # Nil
    /\ given.input[1].SessionName = Nil

\* C8: with ProfileArn and RoleArn present and no SessionName, a
\* DurationSeconds below 900 is rejected with a minimum-value 900 parameter
\* failure before anything is signed or sent; 900 or more, or none, passes
\* validation.
C8_DurationMinimum ==
    C8_Input =>
        IF given.input[1].DurationSeconds # Nil /\ given.input[1].DurationSeconds[1] < 900
        THEN /\ calls.Sign = 0 /\ calls.Send = 0
             /\ pc \in {"request", "build", "done"}
             /\ pc = "done" =>
                  /\ result.err.kind = "ErrInvalidParams"
                  /\ result.err.params =
                       {[type |-> "ParamMinValueError", field |-> "DurationSeconds", min |-> 900]}
        ELSE /\ reqErr.kind # "ErrInvalidParams"
             /\ (calls.Validate > 0 /\ pc = "done") => calls.Sign > 0

C8_Witness ==
    /\ C8_Input /\ pc = "done"
    /\ given.input[1].DurationSeconds = Ptr(899)
    /\ result.err.kind = "ErrInvalidParams"
    /\ calls.Validate = 1 /\ calls.Send = 0

RetryableFailure(r) ==
    \/ r.kind = "transport"
    \/ r.kind = "http" /\ r.status >= 500
    \/ r.kind = "http" /\ (r.status = 429 \/ r.code = "ThrottlingException")

C11_InvocationsIndependent ==
    /\ peer.crossReads = {}
    /\ (entry = GC /\ calls.CreateSession > 0) => config.Region = RegionAlone
    /\ peer.pc = "client" => peer.region = RegionAlone

\* The request has been built: the Build handlers have run.
Built == request.ran # <<>>

QueryFields ==
    {<<"ProfileArn", "profileArn">>, <<"RoleArn", "roleArn">>,
     <<"TrustAnchorArn", "trustAnchorArn">>}

BodyFields ==
    {<<"DurationSeconds", "durationSeconds">>, <<"SessionName", "sessionName">>,
     <<"InstanceProperties", "instanceProperties">>}

\* part has, under its wire name, exactly the fields of fs that are set in
\* the input, each with the input's value.
CarriesExactly(part, fs) ==
    /\ DOMAIN part = {f[2] : f \in {g \in fs : Deref(input)[g[1]] # Nil}}
    /\ \A f \in fs :
         Deref(input)[f[1]] # Nil => part[f[2]] = Deref(Deref(input)[f[1]])

\* C12 as stated: every CreateSession request is a POST to /sessions whose
\* parameters travel in the query string only; its body is empty, whichever
\* fields of the input are set.
C12_BodylessPost ==
    Built =>
        /\ request.method = "POST" /\ request.path = "/sessions"
        /\ CarriesExactly(request.query, QueryFields)
        /\ DOMAIN request.body = {}

\* C12, amended: every CreateSession request is a POST to /sessions; the
\* query string carries exactly profileArn, roleArn and trustAnchorArn, each
\* when present; the body carries exactly durationSeconds, sessionName and
\* instanceProperties, each when set, and is empty only when none of them is.
C12_QueryAndBody ==
    Built =>
        /\ request.method = "POST" /\ request.path = "/sessions"
        /\ CarriesExactly(request.query, QueryFields)
        /\ CarriesExactly(request.body, BodyFields)
        /\ (DOMAIN request.body = {}) <=>
               (\A f \in BodyFields : Deref(input)[f[1]] = Nil)

C12_Witness ==
    /\ entry = CS /\ calls.Send > 0
    /\ DOMAIN request.body = {"durationSeconds", "sessionName", "instanceProperties"}
    /\ DOMAIN request.query = {"profileArn", "roleArn"}

\* C13: the durationSeconds of the request that GenerateCredentials sends is
\* the caller's CredentialsOpts.SessionDuration when one is given, and 3600
\* only when none is.
C13_DurationFromCaller ==
    (entry = GC /\ Built) =>
        /\ Deref(input).DurationSeconds # Nil
        /\ Deref(Deref(input).DurationSeconds) =
              IF given.opts.SessionDuration # 0
              THEN given.opts.SessionDuration
              ELSE DefaultDurationSeconds

\* Handler first has run, and before every run of handler later.
RanBefore(first, later) ==
    /\ \E i \in DOMAIN request.ran : request.ran[i] = first
    /\ \A i, j \in DOMAIN request.ran :
         (request.ran[i] = first /\ request.ran[j] = later) => i < j

\* C14: when GenerateCredentials sends its request, the Sign step is the one
\* handler v4x509.SignRequestHandler: v4.SignRequestHandler of newClient and
\* the signing handler taken over from the session are gone and never run,
\* one handler runs per signing, and the handlers that change the request
\* (user agent, REST build) have run in the Build step, before any signing.
C14_OnlyX509Signs ==
    (entry = GC /\ calls.Send > 0) =>
        /\ handlers.Sign = <<"v4x509.SignRequestHandler">>
        /\ \A i \in DOMAIN request.ran :
             request.ran[i] \notin {"v4.SignRequestHandler", "core.BuildContentLengthHandler"}
        /\ Len(request.ran) = Len(handlers.Build) + calls.Sign
        /\ RanBefore("awssdk.restjson.Build", "v4x509.SignRequestHandler")
        /\ RanBefore("v4x509.CredHelperUserAgentHandler", "v4x509.SignRequestHandler")

C14_Witness ==
    /\ entry = GC /\ calls.Send > 1
    /\ request.ran[Len(request.ran)] = "v4x509.SignRequestHandler"

\* The calls of the steps that come after the step whose error is err.
StepsAfter(err) ==
    CASE err.kind = "arn" ->
            {"ReadPrivateKeyData", "ReadCertificateData", "ReadCertificateBundleData",
             "CreateSession", "Validate", "Sign", "Send"}
      [] err.kind = "KeyLoadError" ->
            {"ReadCertificateData", "ReadCertificateBundleData",
             "CreateSession", "Validate", "Sign", "Send"}
      [] err.kind \in {"CertificateLoadError", "CorruptInputError", "x509ParseError"} ->
            {"ReadCertificateBundleData", "CreateSession", "Validate", "Sign", "Send"}
      [] err.kind = "CertificateBundleLoadError" ->
            {"CreateSession", "Validate", "Sign", "Send"}
      [] OTHER -> {}

\* Every step has been carried out and has succeeded.
AllStepsSucceeded ==
    /\ calls.ReadPrivateKeyData > 0 /\ calls.ReadCertificateData > 0
    /\ calls.Send > 0 /\ reqErr = NoError
    /\ ~IsEmptyCredentialSet(output.CredentialSet)

\* GenerateCredentials never crashes: it ends by a return.
C15_NeverPanics == entry = GC => pc # "panic"

\* A step of GenerateCredentials is carried out once.
C15_NoStepRepeated ==
    entry = GC => \A c \in DOMAIN calls : calls[c] <= 1

\* An error returned by a step comes with the zero output and with no call
\* of a later step; the chain is loaded only for a CertificateBundleId.
C15_ErrorStopsTheRun ==
    /\ (entry = GC /\ pc = "done" /\ result.err # NoError)
          => /\ result.out = ZeroCredentialProcessOutput
             /\ \A c \in StepsAfter(result.err) : calls[c] = 0
    /\ (entry = GC /\ calls.ReadCertificateBundleData > 0)
          => given.opts.CertificateBundleId # ""

\* A nil error is returned only after every step has succeeded, and only
\* then is the output not the zero output.
C15_NilErrorMeansSuccess ==
    (entry = GC /\ pc = "done")
        => /\ result.err = NoError => AllStepsSucceeded
           /\ result.out # ZeroCredentialProcessOutput => result.err = NoError

\* C15: GenerateCredentials is fail-stop along ARN validation, key load,
\* certificate load, chain load (only for a CertificateBundleId), signed
\* send and response mapping: at the first failing step no later step is
\* carried out, the failing step is not retried, and what is returned is
\* that step's non-nil error with the zero output; a non-zero output comes
\* only with a nil error.
C15_FailStop ==
    /\ C15_NeverPanics
    /\ C15_NoStepRepeated
    /\ C15_ErrorStopsTheRun
    /\ C15_NilErrorMeansSuccess

====
